---- MODULE Spec2Model ----
(***************************************************************************)
(* Model of rulinalg's norm module (src/src/norm/mod.rs): the Euclidean    *)
(* and Lp norms of vectors and matrices and the metric induced by a norm.  *)
(*                                                                         *)
(* Scalars.  Elements are whole numbers.  A scalar result is an exact real *)
(* of the form rad^(1/idx), kept in canonical form (idx is as small as     *)
(* possible), so that two results are equal as records exactly when they   *)
(* are equal as reals: sqrt(25) is [rad |-> 5, idx |-> 1] and sqrt(35) is  *)
(* [rad |-> 35, idx |-> 2].  Floating-point rounding is not modelled.      *)
(*                                                                         *)
(* One behaviour is one call: a caller holds a norm value (self), invokes  *)
(* one entry point (its norm or its induced metric) on operands of its     *)
(* choice, and the call either returns a scalar or panics.                 *)
(***************************************************************************)
EXTENDS Integers, Sequences, FiniteSets

VARIABLES pc, op, self, v1, v2, m1, m2, outcome, calls

vars == <<pc, op, self, v1, v2, m1, m2, outcome, calls>>

----------------------------------------------------------------------------
(* Bounds of the model *)

\* largest absolute value of an element of a vector whose norm is taken
MaxVal == 2
\* largest number of elements of a vector whose norm is taken
MaxLen == 3
\* largest finite p of an Lp norm
MaxP == 3

\* a matrix has at most MaxCells cells, so that the 2 x 2 matrices are covered
MaxCells == MaxLen + 1
\* the operands of a metric come in pairs, so they are kept shorter
MetricLen == MaxLen - 1

Vals == (0 - MaxVal)..MaxVal
\* the elements of matrices and of the operands of a metric
SmallVals == (1 - MaxVal)..(MaxVal - 1)
NonNegSmallVals == 0..(MaxVal - 1)

----------------------------------------------------------------------------
(* Scalars *)

Abs(x) == IF x < 0 THEN 0 - x ELSE x

RECURSIVE Pow(_, _)
Pow(x, n) == IF n <= 0 THEN 1 ELSE x * Pow(x, n - 1)

Exact(n) == [rad |-> n, idx |-> 1]

RECURSIVE IRootFrom(_, _, _)
\* least r' >= r with r'^d >= s
IRootFrom(r, s, d) == IF Pow(r, d) >= s THEN r ELSE IRootFrom(r + 1, s, d)

\* the whole d-th root of s, rounded up
IRoot(s, d) == IF d = 1 THEN s ELSE IRootFrom(1, s, d)

IsPerfect(s, d) == Pow(IRoot(s, d), d) = s

\* s^(1/k) for s >= 0 and k >= 1, in canonical form
Root(s, k) ==
  IF s \in {0, 1} THEN Exact(s)
  ELSE LET D == {d \in 1..k : k % d = 0 /\ IsPerfect(s, d)}
           d == CHOOSE x \in D : \A y \in D : y <= x
       IN [rad |-> IRoot(s, d), idx |-> k \div d]

Sqrt(s) == Root(s, 2)

\* the parameter p of Lp: a finite whole number, or an infinity with a sign
FiniteP(n) == [inf |-> FALSE, val |-> n]
PosInf == [inf |-> TRUE, val |-> 1]
NegInf == [inf |-> TRUE, val |-> 0 - 1]
NoP == FiniteP(0)

\* a slip in the comparison: p <= 1 is taken for an invalid p
LeOne(p) == IF p.inf THEN p.val < 0 ELSE p.val <= 1

\* self.0 < T::one()
LtOne(p) == IF p.inf THEN p.val < 0 ELSE p.val < 1
\* self.0.is_infinite()
IsInfinite(p) == p.inf

PValues == {NegInf, PosInf} \cup {FiniteP(n) : n \in (0 - 1)..MaxP}

Euclidean == [kind |-> "Euclidean", p |-> NoP]
Lp(p) == [kind |-> "Lp", p |-> p]
Norms == {Euclidean} \cup {Lp(p) : p \in PValues}

----------------------------------------------------------------------------
(* Outcomes of a call *)

NoOutcome == [status |-> "none", value |-> Exact(0), error |-> "", branch |-> "", reads |-> 0]
Returned(x, br, n) == [status |-> "returned", value |-> x, error |-> "", branch |-> br, reads |-> n]
Panicked(e, br) == [status |-> "panicked", value |-> Exact(0), error |-> e, branch |-> br, reads |-> 0]

----------------------------------------------------------------------------
(* Vectors: the sequences of elements *)

RECURSIVE SeqsOfLen(_, _)
SeqsOfLen(S, n) ==
  IF n = 0 THEN {<< >>}
  ELSE {Append(s, x) : s \in SeqsOfLen(S, n - 1), x \in S}

SeqsUpTo(S, n) == UNION {SeqsOfLen(S, k) : k \in 0..n}

Vectors == SeqsUpTo(Vals, MaxLen)
MetricVectors == SeqsUpTo(SmallVals, MetricLen)

\* utils::dot: the sum of the products of corresponding elements
RECURSIVE DotFrom(_, _, _)
DotFrom(u, w, i) == IF i > Len(u) THEN 0 ELSE u[i] * w[i] + DotFrom(u, w, i + 1)
Dot(u, w) == DotFrom(u, w, 1)

\* &Vector - &Vector
VectorSub(u, w) ==
  IF Len(u) # Len(w) THEN [ok |-> FALSE, val |-> << >>]
  ELSE [ok |-> TRUE, val |-> [i \in 1..Len(u) |-> u[i] - w[i]]]

----------------------------------------------------------------------------
(* The norms of a vector *)

EuclideanVectorNorm(v) == Returned(Sqrt(Dot(v, v)), "euclidean", Len(v))

RECURSIVE SupLoop(_, _, _)
\* the loop of the supremum branch over the elements d[i..], abs_sup so far
SupLoop(d, i, abs_sup) ==
  IF i > Len(d) THEN abs_sup
  ELSE SupLoop(d, i + 1, IF Abs(d[i]) > abs_sup THEN d[i] ELSE abs_sup)

RECURSIVE SumLoopNoAbs(_, _, _, _)
\* a slip in the general branch: x.powf(p) in place of x.abs().powf(p)
SumLoopNoAbs(d, i, p, s) ==
  IF i > Len(d) THEN s
  ELSE SumLoopNoAbs(d, i + 1, p, s + Pow(d[i], p))

RECURSIVE SumLoop(_, _, _, _)
\* the loop of the general branch: s + |x|^p over the elements d[i..]
SumLoop(d, i, p, s) ==
  IF i > Len(d) THEN s
  ELSE SumLoop(d, i + 1, p, s + Pow(Abs(d[i]), p))

\* a slip in the order of the checks: is_infinite is asked before p < 1
LpVectorNormInfFirst(p, d) ==
  IF IsInfinite(p) THEN Returned(Exact(SupLoop(d, 1, 0)), "sup", Len(d))
  ELSE IF LtOne(p) THEN Panicked("invalid_parameter", "invalid")
  ELSE Returned(Root(SumLoop(d, 1, p.val, 0), p.val), "general", Len(d))

\* a slip in the supremum branch: abs_sup starts at the first element, which
\* the empty vector does not have
LpVectorNormFirstElem(p, d) ==
  IF LtOne(p) THEN Panicked("invalid_parameter", "invalid")
  ELSE IF IsInfinite(p)
       THEN IF Len(d) = 0 THEN Panicked("index_out_of_bounds", "sup")
            ELSE Returned(Exact(SupLoop(d, 2, d[1])), "sup", Len(d))
  ELSE Returned(Root(SumLoop(d, 1, p.val, 0), p.val), "general", Len(d))

\* Lp's norm of the vector d: the invalid p, the supremum, the general formula
LpVectorNorm(p, d) ==
  IF LtOne(p) THEN Panicked("invalid_parameter", "invalid")
  ELSE IF IsInfinite(p) THEN Returned(Exact(SupLoop(d, 1, 0)), "sup", Len(d))
  ELSE Returned(Root(SumLoop(d, 1, p.val, 0), p.val), "general", Len(d))

\* self.norm(v) through the VectorNorm trait
VectorNormOf(n, v) ==
  IF n.kind = "Euclidean" THEN EuclideanVectorNorm(v) ELSE LpVectorNorm(n.p, v)

----------------------------------------------------------------------------
(* Matrices *)

(* A matrix is a window of rows x cols cells on row-major data: the cell   *)
(* (i, j), counted from 0, is data[off + i * row_stride + j + 1].  A full  *)
(* Matrix has off = 0 and row_stride = cols; a MatrixSlice is a window on  *)
(* the data of its parent.                                                 *)

FullMatrix(r, c, d) == [rows |-> r, cols |-> c, row_stride |-> c, off |-> 0, data |-> d]

NoMatrix == FullMatrix(0, 0, << >>)

\* MatrixSlice::from_matrix(m, [r0, c0], r, c)
SliceOf(m, r0, c0, r, c) ==
  [rows |-> r, cols |-> c, row_stride |-> m.row_stride,
   off |-> m.off + r0 * m.row_stride + c0, data |-> m.data]

Shapes(n) == {rc \in (0..n) \X (0..n) : rc[1] * rc[2] <= n}

MatricesOver(S, n) ==
  UNION {{FullMatrix(rc[1], rc[2], d) : d \in SeqsOfLen(S, rc[1] * rc[2])} : rc \in Shapes(n)}

Matrices == MatricesOver(SmallVals, MaxCells)

\* the windows of at least one cell that fit in the matrix m
Windows(m) ==
  {w \in (0..m.rows) \X (0..m.cols) \X (1..m.rows) \X (1..m.cols) :
     w[1] + w[3] <= m.rows /\ w[2] + w[4] <= m.cols}

\* the slices of the full matrices of non-negative cells
Slices ==
  UNION {{SliceOf(m, w[1], w[2], w[3], w[4]) : w \in Windows(m)} :
           m \in MatricesOver(NonNegSmallVals, MaxCells)}

\* the operands of a matrix norm
MatrixOperands == Matrices \cup Slices

MetricMatrices == MatricesOver(SmallVals, MetricLen)

\* row.raw_slice() of row i (from 0) of m.iter_rows()
RawSlice(m, i) == [j \in 1..m.cols |-> m.data[m.off + i * m.row_stride + j]]

\* m.iter(): the cells of m in row-major order
Iter(m) ==
  [k \in 1..(m.rows * m.cols) |->
     m.data[m.off + ((k - 1) \div m.cols) * m.row_stride + ((k - 1) % m.cols) + 1]]

\* &Matrix - &Matrix
MatrixSub(a, b) ==
  IF a.rows # b.rows \/ a.cols # b.cols THEN [ok |-> FALSE, val |-> NoMatrix]
  ELSE [ok |-> TRUE,
        val |-> FullMatrix(a.rows, a.cols,
                           [k \in 1..(a.rows * a.cols) |-> Iter(a)[k] - Iter(b)[k]])]

----------------------------------------------------------------------------
(* The norms of a matrix *)

RECURSIVE RowLoopOverwrite(_, _, _)
\* a slip in the loop over the rows: s = dot(row, row) in place of s = s + dot(row, row)
RowLoopOverwrite(m, i, s) ==
  IF i >= m.rows THEN s
  ELSE RowLoopOverwrite(m, i + 1, Dot(RawSlice(m, i), RawSlice(m, i)))

RECURSIVE RowLoop(_, _, _)
\* the loop over the rows i.. of m: s + dot(row, row)
RowLoop(m, i, s) ==
  IF i >= m.rows THEN s
  ELSE RowLoop(m, i + 1, s + Dot(RawSlice(m, i), RawSlice(m, i)))

EuclideanMatrixNorm(m) == Returned(Sqrt(RowLoop(m, 0, 0)), "euclidean", m.rows * m.cols)

\* a slip in the general branch: the sum starts at T::one()
LpMatrixNormFromOne(p, m) ==
  IF LtOne(p) THEN Panicked("invalid_parameter", "invalid")
  ELSE IF IsInfinite(p) THEN Returned(Exact(SupLoop(Iter(m), 1, 0)), "sup", m.rows * m.cols)
  ELSE Returned(Root(SumLoop(Iter(m), 1, p.val, 1), p.val), "general", m.rows * m.cols)

\* Lp's norm of the matrix m, over the stream m.iter()
LpMatrixNorm(p, m) ==
  IF LtOne(p) THEN Panicked("invalid_parameter", "invalid")
  ELSE IF IsInfinite(p) THEN Returned(Exact(SupLoop(Iter(m), 1, 0)), "sup", m.rows * m.cols)
  ELSE Returned(Root(SumLoop(Iter(m), 1, p.val, 0), p.val), "general", m.rows * m.cols)

\* self.norm(m) through the MatrixNorm trait
MatrixNormOf(n, m) ==
  IF n.kind = "Euclidean" THEN EuclideanMatrixNorm(m) ELSE LpMatrixNorm(n.p, m)

----------------------------------------------------------------------------
(* The calls *)

Init ==
  /\ pc = "idle"
  /\ op = "none"
  /\ self \in Norms
  /\ v1 = << >>
  /\ v2 = << >>
  /\ m1 = NoMatrix
  /\ m2 = NoMatrix
  /\ outcome = NoOutcome
  /\ calls = << >>

CallEuclideanVectorNorm ==
  /\ pc = "idle"
  /\ self.kind = "Euclidean"
  /\ \E v \in Vectors :
       /\ v1' = v
       /\ outcome' = EuclideanVectorNorm(v)
  /\ op' = "vector_norm"
  /\ calls' = <<"norm">>
  /\ pc' = "done"
  /\ UNCHANGED <<self, v2, m1, m2>>

CallLpVectorNorm ==
  /\ pc = "idle"
  /\ self.kind = "Lp"
  /\ \E v \in Vectors :
       /\ v1' = v
       /\ outcome' = LpVectorNorm(self.p, v)
  /\ op' = "vector_norm"
  /\ calls' = <<"norm">>
  /\ pc' = "done"
  /\ UNCHANGED <<self, v2, m1, m2>>

\* a slip in the metric: the norm is called on what the two vectors share, so
\* that vectors of different lengths reach the norm
VectorMetricTruncating(n, a, b) ==
  LET k == IF Len(a) < Len(b) THEN Len(a) ELSE Len(b)
  IN [out |-> VectorNormOf(n, [i \in 1..k |-> a[i] - b[i]]), trace |-> <<"sub", "norm">>]

\* self.norm(&(v1 - v2)): the difference is evaluated first, then the norm
VectorMetric(n, a, b) ==
  LET d == VectorSub(a, b)
  IN IF d.ok THEN [out |-> VectorNormOf(n, d.val), trace |-> <<"sub", "norm">>]
     ELSE [out |-> Panicked("shape_mismatch", "sub"), trace |-> <<"sub">>]

VectorPairs == MetricVectors \X MetricVectors

CallVectorMetric ==
  /\ pc = "idle"
  /\ \E ab \in VectorPairs :
       /\ v1' = ab[1]
       /\ v2' = ab[2]
       /\ outcome' = VectorMetric(self, ab[1], ab[2]).out
       /\ calls' = VectorMetric(self, ab[1], ab[2]).trace
  /\ op' = "vector_metric"
  /\ pc' = "done"
  /\ UNCHANGED <<self, m1, m2>>

CallEuclideanMatrixNorm ==
  /\ pc = "idle"
  /\ self.kind = "Euclidean"
  /\ \E m \in MatrixOperands :
       /\ m1' = m
       /\ outcome' = EuclideanMatrixNorm(m)
  /\ op' = "matrix_norm"
  /\ calls' = <<"norm">>
  /\ pc' = "done"
  /\ UNCHANGED <<self, v1, v2, m2>>

CallLpMatrixNorm ==
  /\ pc = "idle"
  /\ self.kind = "Lp"
  /\ \E m \in MatrixOperands :
       /\ m1' = m
       /\ outcome' = LpMatrixNorm(self.p, m)
  /\ op' = "matrix_norm"
  /\ calls' = <<"norm">>
  /\ pc' = "done"
  /\ UNCHANGED <<self, v1, v2, m2>>

\* a slip in the metric: the norm is called on the left operand alone
MatrixMetricOfLeft(n, a, b) ==
  LET d == MatrixSub(a, b)
  IN IF d.ok THEN [out |-> MatrixNormOf(n, a), trace |-> <<"sub", "norm">>]
     ELSE [out |-> Panicked("shape_mismatch", "sub"), trace |-> <<"sub">>]

\* self.norm(&(m1 - m2)): the difference is evaluated first, then the norm
MatrixMetric(n, a, b) ==
  LET d == MatrixSub(a, b)
  IN IF d.ok THEN [out |-> MatrixNormOf(n, d.val), trace |-> <<"sub", "norm">>]
     ELSE [out |-> Panicked("shape_mismatch", "sub"), trace |-> <<"sub">>]

\* the second operand has non-negative cells, or is the first operand itself
MatrixPairs ==
  (MetricMatrices \X MatricesOver(NonNegSmallVals, MetricLen))
    \cup {<<a, a>> : a \in MetricMatrices}

CallMatrixMetric ==
  /\ pc = "idle"
  /\ \E ab \in MatrixPairs :
       /\ m1' = ab[1]
       /\ m2' = ab[2]
       /\ outcome' = MatrixMetric(self, ab[1], ab[2]).out
       /\ calls' = MatrixMetric(self, ab[1], ab[2]).trace
  /\ op' = "matrix_metric"
  /\ pc' = "done"
  /\ UNCHANGED <<self, v1, v2>>

Next ==
  \/ CallEuclideanVectorNorm
  \/ CallLpVectorNorm
  \/ CallVectorMetric
  \/ CallEuclideanMatrixNorm
  \/ CallLpMatrixNorm
  \/ CallMatrixMetric

Spec == Init /\ [][Next]_vars

----------------------------------------------------------------------------
(* Reference definitions of the properties.  They state what a result      *)
(* should be without following the traversal of the code.                  *)

\* the call has ended, and it was a call of norm
IsNormCall == pc = "done" /\ op \in {"vector_norm", "matrix_norm"}
\* the call has ended, and it was a call of metric
IsMetricCall == pc = "done" /\ op \in {"vector_metric", "matrix_metric"}

\* the cells of the window m, by their place (row, column) in the window;
\* the cell (i, j) of the window is the cell (r0 + i, c0 + j) of its parent
ViewCells(m) ==
  [ij \in (0..(m.rows - 1)) \X (0..(m.cols - 1)) |->
     LET r0 == m.off \div m.row_stride
         c0 == m.off % m.row_stride
     IN m.data[(r0 + ij[1]) * m.row_stride + (c0 + ij[2]) + 1]]

\* the elements of the operand of a call of norm
OperandElems == IF op = "vector_norm" THEN v1 ELSE ViewCells(m1)

RECURSIVE SumOf(_)
\* the sum of the values of a function of finite domain
SumOf(f) ==
  IF DOMAIN f = {} THEN 0
  ELSE LET x == CHOOSE y \in DOMAIN f : TRUE
       IN f[x] + SumOf([y \in DOMAIN f \ {x} |-> f[y]])

SumOfSquares(f) == SumOf([k \in DOMAIN f |-> f[k] * f[k]])
SumOfAbs(f) == SumOf([k \in DOMAIN f |-> Abs(f[k])])

\* the scalar x is the non-negative real k-th root of the whole number s
IsRootOf(x, s, k) == x.rad >= 0 /\ k % x.idx = 0 /\ Pow(x.rad, k \div x.idx) = s

\* p >= 1, finite or not
PAtLeastOne(p) == IF p.inf THEN p.val > 0 ELSE p.val >= 1
\* the norm is Euclidean, or Lp with p >= 1
ValidNorm(n) == n.kind = "Euclidean" \/ PAtLeastOne(n.p)
\* the norm is Euclidean, or Lp with a finite p >= 1
FiniteValidNorm(n) == n.kind = "Euclidean" \/ (~n.p.inf /\ n.p.val >= 1)

SameShape ==
  IF op = "vector_metric" THEN Len(v1) = Len(v2)
  ELSE m1.rows = m2.rows /\ m1.cols = m2.cols

\* the elementwise difference of the two operands of a metric of one shape
VectorDifference == [i \in 1..Len(v1) |-> v1[i] - v2[i]]
MatrixDifference ==
  FullMatrix(m1.rows, m1.cols,
             [k \in 1..(m1.rows * m1.cols) |->
                LET ij == <<(k - 1) \div m1.cols, (k - 1) % m1.cols>>
                IN ViewCells(m1)[ij] - ViewCells(m2)[ij]])

\* the rearrangements of the sequence s
Permutations(s) ==
  {[i \in 1..Len(s) |-> s[f[i]]] :
     f \in {g \in [1..Len(s) -> 1..Len(s)] : \A i, j \in 1..Len(s) : g[i] = g[j] => i = j}}

\* the full matrices that hold the elements of s, in any order and any shape
Rearrangements(s) ==
  {FullMatrix(rc[1], rc[2], q) :
     rc \in {x \in (0..Len(s)) \X (0..Len(s)) : x[1] * x[2] = Len(s)},
     q \in Permutations(s)}

----------------------------------------------------------------------------
(* The properties *)

\* C1: Lp(+infinity).norm of a vector or a matrix returns the greatest
\* absolute value of its elements: a result that is >= |x| for every element
\* x and is |x| for some element x, and 0 when there is no element.
SupremumIsMaxAbs ==
  (IsNormCall /\ self = Lp(PosInf)) =>
    /\ outcome.status = "returned"
    /\ outcome.value.idx = 1
    /\ \A k \in DOMAIN OperandElems : outcome.value.rad >= Abs(OperandElems[k])
    /\ IF DOMAIN OperandElems = {} THEN outcome.value.rad = 0
       ELSE \E k \in DOMAIN OperandElems : outcome.value.rad = Abs(OperandElems[k])

\* C2: with p < 1 (0, a negative p, -infinity) Lp(p).norm of any vector or
\* matrix, the empty one included, and Lp(p).metric of any two operands of
\* one shape, panic with the invalid-parameter error: no scalar is returned,
\* no element is read and the supremum and the general branch are not taken.
InvalidPPanics ==
  (/\ pc = "done"
   /\ self.kind = "Lp"
   /\ ~PAtLeastOne(self.p)
   /\ (IsMetricCall => SameShape)) =>
    /\ outcome.status = "panicked"
    /\ outcome.error = "invalid_parameter"
    /\ outcome.branch = "invalid"
    /\ outcome.reads = 0

InvalidPPanicsWitness ==
  /\ pc = "done"
  /\ op = "matrix_norm"
  /\ self = Lp(NegInf)
  /\ m1.rows * m1.cols > 1
  /\ outcome.error = "invalid_parameter"

\* C3: for every norm and every two operands of one shape, metric does
\* nothing but subtract and call norm, and its outcome is the outcome of
\* norm on the elementwise difference of the operands.
MetricIsNormOfDifference ==
  (IsMetricCall /\ SameShape) =>
    /\ calls = <<"sub", "norm">>
    /\ outcome = IF op = "vector_metric" THEN VectorNormOf(self, VectorDifference)
                 ELSE MatrixNormOf(self, MatrixDifference)

MetricIsNormOfDifferenceWitness ==
  /\ pc = "done"
  /\ op = "matrix_metric"
  /\ self = Lp(FiniteP(3))
  /\ m1.rows = 1 /\ m1.cols = 2 /\ m2.rows = 1 /\ m2.cols = 2
  /\ \E k \in 1..2 : m1.data[k] - m2.data[k] < 0
  /\ outcome.status = "returned"
  /\ outcome.value = [rad |-> 9, idx |-> 3]

\* C4: metric of two vectors of different lengths, or of two matrices of
\* different dimensions, panics with the shape-mismatch error of the
\* subtraction for every norm, Lp(p) with p < 1 included: no scalar is
\* returned and norm is never called.
ShapeMismatchPanics ==
  (IsMetricCall /\ ~SameShape) =>
    /\ outcome.status = "panicked"
    /\ outcome.error = "shape_mismatch"
    /\ calls = <<"sub">>

ShapeMismatchPanicsWitness ==
  /\ pc = "done"
  /\ op = "vector_metric"
  /\ self = Lp(FiniteP(0))
  /\ Len(v1) = 2 /\ Len(v2) = 1
  /\ outcome.error = "shape_mismatch"

\* C5: metric(N, x, x) is 0 for every vector and every matrix x, for
\* Euclidean and for Lp(p) with every p >= 1, +infinity included.
MetricOfEqualsIsZero ==
  (/\ IsMetricCall
   /\ ValidNorm(self)
   /\ (IF op = "vector_metric" THEN v1 = v2 ELSE m1 = m2)) =>
    /\ outcome.status = "returned"
    /\ outcome.value = Exact(0)

MetricOfEqualsIsZeroWitness ==
  /\ pc = "done"
  /\ op = "vector_metric"
  /\ self = Lp(PosInf)
  /\ v1 = v2
  /\ Len(v1) = 2 /\ v1[1] < 0 /\ v1[2] > 0
  /\ outcome.value = Exact(0)

\* C6: for Euclidean and for Lp(p) with a finite p >= 1, metric(N, a, b) is
\* metric(N, b, a) for operands of one shape, and N.norm(x) is N.norm(-x).
MetricIsSymmetric ==
  /\ (IsMetricCall /\ SameShape /\ FiniteValidNorm(self)) =>
       outcome = IF op = "vector_metric" THEN VectorMetric(self, v2, v1).out
                 ELSE MatrixMetric(self, m2, m1).out
  /\ (IsNormCall /\ FiniteValidNorm(self)) =>
       outcome = IF op = "vector_norm"
                 THEN VectorNormOf(self, [i \in 1..Len(v1) |-> 0 - v1[i]])
                 ELSE MatrixNormOf(self, [m1 EXCEPT !.data = [k \in 1..Len(m1.data) |-> 0 - m1.data[k]]])

MetricIsSymmetricWitness ==
  /\ pc = "done"
  /\ op = "vector_metric"
  /\ self = Lp(FiniteP(3))
  /\ Len(v1) = 2 /\ Len(v2) = 2
  /\ v1[1] - v2[1] < 0 /\ v1[2] - v2[2] > 0
  /\ outcome.status = "returned"
  /\ outcome.value = [rad |-> 9, idx |-> 3]

\* C7: for Euclidean and for Lp(p) with every p >= 1, +infinity included,
\* the norm depends only on the multiset of the elements: every operand that
\* holds the same elements in another order or another rows x columns
\* arrangement has the same norm.
NormIsPermutationInvariant ==
  (IsNormCall /\ ValidNorm(self)) =>
    IF op = "vector_norm"
    THEN \A q \in Permutations(v1) : VectorNormOf(self, q).value = outcome.value
    ELSE \A q \in Rearrangements(Iter(m1)) : MatrixNormOf(self, q).value = outcome.value

\* C8: the Euclidean norm of a matrix of any shape, a slice of a larger
\* matrix and a matrix of no rows included, is the square root of the sum of
\* the squares of exactly the cells of the matrix; the Euclidean norm of a
\* vector is the square root of the sum of the squares of its elements.
EuclideanIsRootOfSumOfSquares ==
  (IsNormCall /\ self = Euclidean) =>
    /\ outcome.status = "returned"
    /\ IsRootOf(outcome.value, SumOfSquares(OperandElems), 2)

EuclideanIsRootOfSumOfSquaresWitness ==
  /\ pc = "done"
  /\ op = "matrix_norm"
  /\ self = Euclidean
  /\ m1.rows = 2 /\ m1.cols = 1 /\ m1.row_stride = 2 /\ m1.off = 1
  /\ m1.data = <<1, 1, 1, 1>>
  /\ outcome.value = [rad |-> 2, idx |-> 2]

\* C9: for p = 1, Lp(p).norm of a vector or a matrix is the sum of the
\* absolute values of its elements, and it comes from the general branch.
LpOneIsSumOfAbs ==
  (IsNormCall /\ self = Lp(FiniteP(1))) =>
    /\ outcome.status = "returned"
    /\ outcome.branch = "general"
    /\ outcome.value = Exact(SumOfAbs(OperandElems))

LpOneIsSumOfAbsWitness ==
  /\ pc = "done"
  /\ op = "matrix_norm"
  /\ self = Lp(FiniteP(1))
  /\ m1.rows = 2 /\ m1.cols = 2
  /\ \E k \in 1..4 : m1.data[k] < 0
  /\ outcome.value = Exact(4)

\* C10: for Euclidean and for Lp(p) with every p >= 1, +infinity included,
\* norm of a vector returns a scalar and never panics, and norm of the empty
\* vector returns 0.
VectorNormIsTotal ==
  (pc = "done" /\ op = "vector_norm" /\ ValidNorm(self)) =>
    /\ outcome.status = "returned"
    /\ (v1 = << >> => outcome.value = Exact(0))

VectorNormIsTotalWitness ==
  /\ pc = "done"
  /\ op = "vector_norm"
  /\ self = Lp(PosInf)
  /\ v1 = << >>
  /\ outcome.status = "returned"

====
